---- MODULE Spec2Model ----
(***************************************************************************)
(* Model of the Trajectory timeseries of pursuit (src/public/pursuit.js).  *)
(*                                                                         *)
(* JavaScript values are modelled as tagged records:                       *)
(*   numbers   [kind |-> "number", n, d]  exact rationals n/d, d > 0       *)
(*   undefined [kind |-> "undefined"]                                      *)
(*   points    [kind |-> "object", date, value]  the {date, value} literal *)
(* Reading a property of undefined throws a TypeError, which a call        *)
(* reports as the outcome [kind |-> "TypeError"].  Dates are integers      *)
(* (epoch milliseconds).                                                   *)
(***************************************************************************)
EXTENDS Integers, Sequences, FiniteSets, TLC

VARIABLES line, before, op, ret, store, calls, clippedGoal, tx

\* The variables of a Trajectory and the calls made on it, and those of the
\* Firestore documents and the calls and transactions that write them.
trajectoryVars == <<line, before, op, ret>>
storeVars == <<store, calls, clippedGoal, tx>>

vars == <<line, before, op, ret, store, calls, clippedGoal, tx>>

-----------------------------------------------------------------------------
(* Bounds of the model. *)

MaxDateIdx == 3
MaxValue == 1
MaxGoalDate == 2
MaxWindow == 2

-----------------------------------------------------------------------------
(* Program constants. *)

HOUR == 60 * 60 * 1000
DAY == 24 * HOUR

-----------------------------------------------------------------------------
(* JavaScript values. *)

Abs(x) == IF x < 0 THEN -x ELSE x

RECURSIVE GCD(_, _)
GCD(a, b) == IF b = 0 THEN a ELSE GCD(b, a % b)

\* The number n/d (d # 0), in lowest terms with a positive denominator.
Num(n, d) ==
  LET g == GCD(Abs(n), Abs(d))
      s == IF d < 0 THEN -1 ELSE 1
  IN [kind |-> "number", n |-> (s * n) \div g, d |-> (s * d) \div g]

Int2Num(i) == Num(i, 1)

\* Finite arithmetic, reduced before multiplying.
NumNeg(x) == [kind |-> "number", n |-> -x.n, d |-> x.d]

NumAdd(x, y) ==
  LET g == GCD(x.d, y.d)
      m == (x.d \div g) * y.d
  IN Num(x.n * (m \div x.d) + y.n * (m \div y.d), m)

NumSub(x, y) == NumAdd(x, NumNeg(y))

NumMul(x, y) ==
  LET g1 == GCD(Abs(x.n), y.d)
      g2 == GCD(Abs(y.n), x.d)
  IN Num((x.n \div g1) * (y.n \div g2), (x.d \div g2) * (y.d \div g1))

\* Division by a non-zero number.
NumDiv(x, y) == NumMul(x, Num(y.d, y.n))

Undefined == [kind |-> "undefined"]
TypeError == [kind |-> "TypeError"]
This == [kind |-> "this"]

Point(date, value) == [kind |-> "object", date |-> date, value |-> value]

IsUndefined(v) == v.kind = "undefined"

\* The non-finite numbers.  A zero carries no sign: no divisor of the
\* methods modelled here can be a negative zero.
NaN == [kind |-> "NaN"]
Infinity(sign) == [kind |-> "Infinity", sign |-> sign]

IsFinite(x) == x.kind = "number"

Sign(x) == IF IsFinite(x) THEN (IF x.n < 0 THEN -1 ELSE 1) ELSE x.sign

IsZero(x) == IsFinite(x) /\ x.n = 0

\* ToNumber, as the arithmetic operators apply it to their operands.
ToNumber(v) == IF IsUndefined(v) THEN NaN ELSE v

Threw(v) == v.kind = "TypeError"

\* x + y
JsAdd(x, y) ==
  LET a == ToNumber(x)
      b == ToNumber(y)
  IN IF Threw(a) \/ Threw(b) THEN TypeError
     ELSE IF a = NaN \/ b = NaN THEN NaN
     ELSE IF ~IsFinite(a) /\ ~IsFinite(b)
     THEN (IF a.sign = b.sign THEN a ELSE NaN)
     ELSE IF ~IsFinite(a) THEN a
     ELSE IF ~IsFinite(b) THEN b
     ELSE NumAdd(a, b)

\* -x
JsNeg(x) ==
  LET a == ToNumber(x)
  IN IF Threw(a) THEN TypeError
     ELSE IF a = NaN THEN NaN
     ELSE IF ~IsFinite(a) THEN Infinity(-a.sign)
     ELSE NumNeg(a)

\* x - y
JsSub(x, y) == JsAdd(x, JsNeg(y))

\* x * y
JsMul(x, y) ==
  LET a == ToNumber(x)
      b == ToNumber(y)
  IN IF Threw(a) \/ Threw(b) THEN TypeError
     ELSE IF a = NaN \/ b = NaN THEN NaN
     ELSE IF IsFinite(a) /\ IsFinite(b) THEN NumMul(a, b)
     ELSE IF IsZero(a) \/ IsZero(b) THEN NaN
     ELSE Infinity(Sign(a) * Sign(b))

\* x / y
JsDiv(x, y) ==
  LET a == ToNumber(x)
      b == ToNumber(y)
  IN IF Threw(a) \/ Threw(b) THEN TypeError
     ELSE IF a = NaN \/ b = NaN THEN NaN
     ELSE IF ~IsFinite(a)
     THEN (IF ~IsFinite(b) THEN NaN ELSE Infinity(a.sign * Sign(b)))
     ELSE IF ~IsFinite(b) THEN Int2Num(0)
     ELSE IF IsZero(b)
     THEN (IF IsZero(a) THEN NaN ELSE Infinity(Sign(a)))
     ELSE NumDiv(a, b)

\* x < y for numbers other than NaN.
Less(a, b) ==
  IF ~IsFinite(a) THEN a.sign = -1 /\ b # a
  ELSE IF ~IsFinite(b) THEN b.sign = 1
  ELSE NumSub(a, b).n < 0

\* x >= y: false when an operand is NaN.
JsGe(x, y) ==
  LET a == ToNumber(x)
      b == ToNumber(y)
  IN a # NaN /\ b # NaN /\ ~Less(a, b)

\* Math.min(x, y)
MathMin(x, y) ==
  LET a == ToNumber(x)
      b == ToNumber(y)
  IN IF Threw(a) \/ Threw(b) THEN TypeError
     ELSE IF a = NaN \/ b = NaN THEN NaN
     ELSE IF Less(b, a) THEN b ELSE a

-----------------------------------------------------------------------------
(* Array primitives, indices 0-based as in the source. *)

\* a[i]: undefined outside the array.
Elem(a, i) == IF i >= 0 /\ i < Len(a) THEN a[i + 1] ELSE Undefined

\* a.splice(start, deleteCount, ...items) for 0 <= start <= a.length.
Splice(a, start, deleteCount, items) ==
  SubSeq(a, 1, start) \o items \o SubSeq(a, start + deleteCount + 1, Len(a))

\* The array left by a.pop().
Pop(a) == IF Len(a) = 0 THEN a ELSE SubSeq(a, 1, Len(a) - 1)

\* The value returned by a.pop().
Popped(a) == Elem(a, Len(a) - 1)

-----------------------------------------------------------------------------
(* Trajectory. Each method yields [line |-> point list afterwards,         *)
(* ret |-> returned value or TypeError].                                   *)

\* The getters index this._line, which is always an array: their
\* `!this._line` branch is never taken, and an empty array yields undefined.
earliest(l) == Elem(l, 0)

latest(l) == Elem(l, Len(l) - 1)

\* InsertScan stopping at an equal date (> for >=).
RECURSIVE InsertScanGt(_, _, _)
InsertScanGt(l, date, p) ==
  IF p > 0
  THEN IF IsUndefined(Elem(l, p - 1)) THEN -1
       ELSE IF Elem(l, p - 1).date > date THEN InsertScanGt(l, date, p - 1)
       ELSE p
  ELSE p

\* The while loop of insert: the final p, or -1 when the loop throws.
RECURSIVE InsertScan(_, _, _)
InsertScan(l, date, p) ==
  IF p > 0
  THEN IF IsUndefined(Elem(l, p - 1)) THEN -1
       ELSE IF Elem(l, p - 1).date >= date THEN InsertScan(l, date, p - 1)
       ELSE p
  ELSE p

\* insert that always adds the point at the end.
insertAppend(l, date, value) ==
  [line |-> Append(l, Point(date, value)), ret |-> This]

\* insert that never deletes at the insertion index.
insertNoDelete(l, date, value) ==
  LET p == InsertScan(l, date, Len(l))
  IN IF p = -1 THEN [line |-> l, ret |-> TypeError]
     ELSE [line |-> Splice(l, p, 0, <<Point(date, value)>>), ret |-> This]

insert(l, date, value) ==
  LET p == InsertScan(l, date, Len(l))
  IN IF p = -1 THEN [line |-> l, ret |-> TypeError]
     ELSE LET deleteCount ==
                IF p < Len(l) /\ Elem(l, p).date = date THEN 1 ELSE 0
          IN [line |-> Splice(l, p, deleteCount, <<Point(date, value)>>),
              ret |-> This]

\* new Trajectory() followed by insert(date, value) for each of points, in
\* their order: the resulting this._line.
RECURSIVE InsertAll(_)
InsertAll(points) ==
  IF points = <<>> THEN <<>>
  ELSE LET last == points[Len(points)]
       IN insert(InsertAll(SubSeq(points, 1, Len(points) - 1)),
                 last.date, last.value).line

\* RemoveScan matching the first date that is not earlier (>= for ==).
RECURSIVE RemoveScanGe(_, _, _)
RemoveScanGe(l, date, i) ==
  IF i < Len(l)
  THEN IF IsUndefined(Elem(l, i)) THEN -1
       ELSE IF Elem(l, i).date >= date THEN i
       ELSE RemoveScanGe(l, date, i + 1)
  ELSE i

\* The for loop of remove: the index of the match, l.length when there is
\* none, or -1 when the loop throws.
RECURSIVE RemoveScan(_, _, _)
RemoveScan(l, date, i) ==
  IF i < Len(l)
  THEN IF IsUndefined(Elem(l, i)) THEN -1
       ELSE IF Elem(l, i).date = date THEN i
       ELSE RemoveScan(l, date, i + 1)
  ELSE i

remove(l, date) ==
  LET i == RemoveScan(l, date, 0)
  IN IF i = -1 THEN [line |-> l, ret |-> TypeError]
     ELSE IF i < Len(l) THEN [line |-> Splice(l, i, 1, <<>>), ret |-> This]
     ELSE [line |-> l, ret |-> This]

\* AtScan that never advances: the first pair is always taken.
AtScanNoAdvance(l, date, i0) == i0

\* The for loop of at: the final i0.
RECURSIVE AtScan(_, _, _)
AtScan(l, date, i0) ==
  IF i0 < Len(l) - 1 /\ Elem(l, i0 + 1).date <= date
  THEN AtScan(l, date, i0 + 1)
  ELSE i0

\* Interpolate without the m0 it starts from.
InterpolateNoBase(t0, m0, t2, m2, date) ==
  NumDiv(NumMul(Int2Num(date - t0), NumSub(m2, m0)), Int2Num(t2 - t0))

\* The interpolation between (t0, m0) and (t2, m2), t0 # t2.
Interpolate(t0, m0, t2, m2, date) ==
  NumAdd(m0, NumDiv(NumMul(Int2Num(date - t0), NumSub(m2, m0)),
                    Int2Num(t2 - t0)))

\* atNonEmpty extrapolating on the right only past the latest date
\* (< for <=).
atNonEmptyStrictRight(l, date) ==
  IF IsUndefined(earliest(l)) THEN TypeError
  ELSE IF earliest(l).date >= date THEN earliest(l).value
  ELSE IF IsUndefined(latest(l)) THEN TypeError
  ELSE IF latest(l).date < date THEN latest(l).value
  ELSE LET i0 == AtScan(l, date, 0)
           i2 == i0 + 1
       IN IF IsUndefined(Elem(l, i0)) \/ IsUndefined(Elem(l, i2))
          THEN TypeError
          ELSE Interpolate(Elem(l, i0).date, Elem(l, i0).value,
                           Elem(l, i2).date, Elem(l, i2).value, date)

\* at(date) past the emptiness test.
atNonEmpty(l, date) ==
  IF IsUndefined(earliest(l)) THEN TypeError
  ELSE IF earliest(l).date >= date THEN earliest(l).value
  ELSE IF IsUndefined(latest(l)) THEN TypeError
  ELSE IF latest(l).date <= date THEN latest(l).value
  ELSE LET i0 == AtScan(l, date, 0)
           i2 == i0 + 1
       IN IF IsUndefined(Elem(l, i0)) \/ IsUndefined(Elem(l, i2))
          THEN TypeError
          ELSE Interpolate(Elem(l, i0).date, Elem(l, i0).value,
                           Elem(l, i2).date, Elem(l, i2).value, date)

\* at without the emptiness test.
atNoEmptyTest(l, date) == atNonEmpty(l, date)

\* The value of at(date); the point list is not written.
at(l, date) ==
  IF Len(l) = 0 THEN Undefined ELSE atNonEmpty(l, date)

\* [Symbol.iterator]: the points in index order, as Array.from collects them.
iterate(l) == [kind |-> "array", items |-> [i \in 1..Len(l) |-> l[i]]]

\* ObjectiveConverter.toFirestore, the trajectory field of a goal:
\* Array.from(g.trajectory).
toFirestoreTrajectory(l) == iterate(l)

\* FromFirestoreLoop leaving out the last element of the array.
RECURSIVE FromFirestoreLoopShort(_, _, _)
FromFirestoreLoopShort(items, i, l) ==
  IF i >= Len(items) - 1 THEN [kind |-> "Trajectory", line |-> l]
  ELSE IF IsUndefined(Elem(items, i)) THEN TypeError
  ELSE LET r == insert(l, Elem(items, i).date, Elem(items, i).value)
       IN IF Threw(r.ret) THEN TypeError
          ELSE FromFirestoreLoopShort(items, i + 1, r.line)

\* The for-of loop of fromFirestore over g.trajectory, at element i with
\* the point list l built so far: the Trajectory built, or TypeError.
RECURSIVE FromFirestoreLoop(_, _, _)
FromFirestoreLoop(items, i, l) ==
  IF i >= Len(items) THEN [kind |-> "Trajectory", line |-> l]
  ELSE IF IsUndefined(Elem(items, i)) THEN TypeError
  ELSE LET r == insert(l, Elem(items, i).date, Elem(items, i).value)
       IN IF Threw(r.ret) THEN TypeError
          ELSE FromFirestoreLoop(items, i + 1, r.line)

\* ObjectiveConverter.fromFirestore, the trajectory of a goal: a new
\* Trajectory, filled from g.trajectory when the field is there.
fromFirestoreTrajectory(field) ==
  IF IsUndefined(field) THEN [kind |-> "Trajectory", line |-> <<>>]
  ELSE FromFirestoreLoop(field.items, 0, <<>>)

\* CompactLoop running down to index 0 (i >= 0 for i > 0).
RECURSIVE CompactLoopGe(_, _, _)
CompactLoopGe(l, head, i) ==
  IF i >= 0
  THEN IF IsUndefined(head) \/ IsUndefined(Elem(l, i))
       THEN [line |-> l, threw |-> TRUE]
       ELSE IF head.date - Elem(l, i).date <= DAY
       THEN CompactLoopGe(Pop(l), head, i - 1)
       ELSE [line |-> l, threw |-> FALSE]
  ELSE [line |-> l, threw |-> FALSE]

\* CompactLoop keeping a point that is exactly one day older than the head
\* (< for <=).
RECURSIVE CompactLoopLt(_, _, _)
CompactLoopLt(l, head, i) ==
  IF i > 0
  THEN IF IsUndefined(head) \/ IsUndefined(Elem(l, i))
       THEN [line |-> l, threw |-> TRUE]
       ELSE IF head.date - Elem(l, i).date < DAY
       THEN CompactLoopLt(Pop(l), head, i - 1)
       ELSE [line |-> l, threw |-> FALSE]
  ELSE [line |-> l, threw |-> FALSE]

\* The for loop of compactHead, entered with i = l.length - 1 and keeping
\* it there: [line |-> the list left, threw |-> whether the guard threw].
RECURSIVE CompactLoop(_, _, _)
CompactLoop(l, head, i) ==
  IF i > 0
  THEN IF IsUndefined(head) \/ IsUndefined(Elem(l, i))
       THEN [line |-> l, threw |-> TRUE]
       ELSE IF head.date - Elem(l, i).date <= DAY
       THEN CompactLoop(Pop(l), head, i - 1)
       ELSE [line |-> l, threw |-> FALSE]
  ELSE [line |-> l, threw |-> FALSE]

\* compactHead(duration): the parameter is not read by the body.
compactHead(l, duration) ==
  LET head == Popped(l)
      rest == Pop(l)
      c == CompactLoop(rest, head, Len(rest) - 1)
  IN IF c.threw THEN [line |-> c.line, ret |-> TypeError]
     ELSE [line |-> Splice(c.line, Len(c.line), 0, <<head>>),
           ret |-> Undefined]

\* velocity dividing by a - b.
velocitySwapped(l, a, b) ==
  JsDiv(JsSub(at(l, b), at(l, a)), Int2Num(a - b))

\* Trajectory.velocity(a, b)
velocity(l, a, b) ==
  JsDiv(JsSub(at(l, b), at(l, a)), Int2Num(b - a))

-----------------------------------------------------------------------------
(* The goal component's handlers that write a trajectory: `l` is the point *)
(* list of goal.trajectory and `now` is new Date().getTime().  Each yields *)
(* the array written to goals.<id>.trajectory, or TypeError; the handler   *)
(* works on a deep clone, so goal.trajectory keeps its points.             *)

\* updateGoalCurrent(goal, current)
updateGoalCurrent(l, now, current) ==
  LET inserted == insert(l, now, current)
      compacted == compactHead(inserted.line, HOUR)
  IN IF Threw(inserted.ret) \/ Threw(compacted.ret) THEN TypeError
     ELSE iterate(compacted.line)

\* incrementGoal(goal)
incrementGoal(l, now) ==
  IF IsUndefined(latest(l)) THEN TypeError
  ELSE LET inserted == insert(l, now, JsAdd(latest(l).value, Int2Num(1)))
           compacted == compactHead(inserted.line, HOUR)
       IN IF Threw(inserted.ret) \/ Threw(compacted.ret) THEN TypeError
          ELSE iterate(compacted.line)

-----------------------------------------------------------------------------
(* Goal: the fields read by the methods below; trajectory is the point     *)
(* list of the Trajectory the goal refers to.                              *)

Goal(start, end, target, trajectory) ==
  [start |-> start, end |-> end, target |-> Int2Num(target),
   trajectory |-> trajectory]

\* Math.min on dates.
MinDate(a, b) == IF a <= b THEN a ELSE b

Boolean(b) == [kind |-> "boolean", value |-> b]

\* baseline read at the end date.
baselineAtEnd(g) == at(g.trajectory, g.end)

\* get baseline
baseline(g) == at(g.trajectory, g.start)

\* get progress
progress(g) ==
  IF Len(g.trajectory) = 0 THEN NaN
  ELSE IF IsUndefined(latest(g.trajectory)) THEN TypeError
  ELSE JsDiv(JsSub(latest(g.trajectory).value, baseline(g)),
             JsSub(g.target, baseline(g)))

\* timeSpent without the test for a window of length zero.
timeSpentNoZeroTest(g, by_date) ==
  JsDiv(Int2Num(by_date - g.start), Int2Num(g.end - g.start))

\* timeSpent answering 0 for a goal whose start and end coincide.
timeSpentZero(g, by_date) ==
  LET total == g.end - g.start
      spent == by_date - g.start
  IN IF total = 0 THEN Int2Num(0)
     ELSE JsDiv(Int2Num(spent), Int2Num(total))

\* timeSpent(by_date)
timeSpent(g, by_date) ==
  LET total == g.end - g.start
      spent == by_date - g.start
  IN IF total = 0 THEN Int2Num(1)
     ELSE JsDiv(Int2Num(spent), Int2Num(total))

\* relativeProgress dividing by the time spent at by_date, not capped at
\* the end date.
relativeProgressNoCap(g, by_date) ==
  IF by_date <= g.start THEN Int2Num(1)
  ELSE LET p == JsDiv(JsSub(at(g.trajectory, by_date), baseline(g)),
                      JsSub(g.target, baseline(g)))
           t == timeSpent(g, by_date)
       IN JsDiv(p, t)

\* relativeProgress(by_date)
relativeProgress(g, by_date) ==
  IF by_date <= g.start THEN Int2Num(1)
  ELSE LET p == JsDiv(JsSub(at(g.trajectory, by_date), baseline(g)),
                      JsSub(g.target, baseline(g)))
           t == timeSpent(g, MinDate(by_date, g.end))
       IN JsDiv(p, t)

\* isOnTrack comparing the progress made by by_date.
isOnTrackAtDate(g, by_date) ==
  LET p == JsDiv(JsSub(at(g.trajectory, by_date), baseline(g)),
                 JsSub(g.target, baseline(g)))
  IN IF Threw(p) THEN TypeError
     ELSE Boolean(JsGe(p, timeSpent(g, MinDate(g.end, by_date))))

\* isOnTrack(by_date)
isOnTrack(g, by_date) ==
  IF Threw(progress(g)) THEN TypeError
  ELSE Boolean(JsGe(progress(g), timeSpent(g, MinDate(g.end, by_date))))

-----------------------------------------------------------------------------
(* RegularGoal: the fields read by the methods below; window is a number   *)
(* of days.                                                                *)

RegularGoal(window, target, total, trajectory) ==
  [window |-> window, target |-> Int2Num(target), total |-> Int2Num(total),
   trajectory |-> trajectory]

\* value with a window of `window` milliseconds.
windowValueNoDay(g, by_date) ==
  JsSub(at(g.trajectory, by_date), at(g.trajectory, by_date - g.window))

\* value(by_date): named windowValue here, `value` being the name of a
\* point's field and of insert's parameter.
windowValue(g, by_date) ==
  JsSub(at(g.trajectory, by_date),
        at(g.trajectory, by_date - g.window * DAY))

\* budgetRemaining(by_date)
budgetRemaining(g, by_date) ==
  JsDiv(JsSub(windowValue(g, by_date), g.target), JsSub(g.total, g.target))

\* partialData with >= for >.
partialDataGe(g, by_date) ==
  IF IsUndefined(earliest(g.trajectory)) THEN NaN
  ELSE Boolean(earliest(g.trajectory).date >= by_date - g.window * DAY)

\* partialData(by_date)
partialData(g, by_date) ==
  IF IsUndefined(earliest(g.trajectory)) THEN NaN
  ELSE Boolean(earliest(g.trajectory).date > by_date - g.window * DAY)

\* budgetRemainingProrated without Math.min.
budgetRemainingProratedNoMin(g, by_date) ==
  IF IsUndefined(earliest(g.trajectory)) THEN NaN
  ELSE IF partialData(g, by_date).value
  THEN LET r == JsDiv(Int2Num(by_date - earliest(g.trajectory).date),
                      Int2Num(g.window * DAY))
       IN JsDiv(JsSub(windowValue(g, by_date), JsMul(r, g.target)),
                JsSub(JsMul(r, g.total), JsMul(r, g.target)))
  ELSE budgetRemaining(g, by_date)

\* budgetRemainingProrated(by_date)
budgetRemainingProrated(g, by_date) ==
  IF IsUndefined(earliest(g.trajectory)) THEN NaN
  ELSE IF partialData(g, by_date).value
  THEN LET r == JsDiv(Int2Num(by_date - earliest(g.trajectory).date),
                      Int2Num(g.window * DAY))
           b == JsDiv(JsSub(windowValue(g, by_date), JsMul(r, g.target)),
                      JsSub(JsMul(r, g.total), JsMul(r, g.target)))
       IN MathMin(Int2Num(1), b)
  ELSE budgetRemaining(g, by_date)

-----------------------------------------------------------------------------
(* Goal velocities and VelocityReport.  A report is modelled by the unit   *)
(* of time its wording names; toFixed formats every number, NaN and the    *)
(* infinities included, without throwing.                                  *)

\* Math.max(start, by_date - 30 * DAY).  30 * DAY exceeds 32 bits: the two
\* dates are compared by their distance in days, and the 30 days are
\* subtracted in two halves.
Window30dStart(start, by_date) ==
  LET d == by_date - start
  IN IF d \div DAY > 30 \/ (d \div DAY = 30 /\ d % DAY > 0)
     THEN (by_date - 15 * DAY) - 15 * DAY
     ELSE start

\* velocity30d(by_date)
velocity30d(g, by_date) ==
  velocity(g.trajectory, Window30dStart(g.start, by_date), by_date)

\* velocityRequired(by_date)
velocityRequired(g, by_date) ==
  JsDiv(JsSub(g.target, at(g.trajectory, by_date)),
        Int2Num(g.end - by_date))

ReportUnit(text) == [kind |-> "string", unit |-> text]

\* VelocityReport.report(goal, by_date)
report(g, by_date) ==
  LET v == JsMul(velocity30d(g, by_date), Int2Num(DAY))
      rv == JsMul(velocityRequired(g, by_date), Int2Num(DAY))
  IN IF Threw(v) \/ Threw(rv) THEN TypeError
     ELSE IF JsGe(v, Int2Num(1)) \/ JsGe(rv, Int2Num(1))
     THEN ReportUnit("per day")
     ELSE IF JsGe(JsMul(v, Int2Num(7)), Int2Num(1))
             \/ JsGe(JsMul(rv, Int2Num(7)), Int2Num(1))
     THEN ReportUnit("per week")
     ELSE ReportUnit("per month")

-----------------------------------------------------------------------------
(* ProgressReport.  A status string is modelled by its fixed wording; the  *)
(* numbers formatted into it are evaluated for the exceptions they raise.  *)

Status(text) == [kind |-> "string", status |-> text]

\* progressStatus(goal, by_date)
progressStatus(g, by_date) ==
  IF by_date < g.start THEN Status("days until start")
  ELSE IF Threw(progress(g)) THEN TypeError
  ELSE IF JsGe(progress(g), Int2Num(1))
  THEN (IF by_date < g.end THEN Status("complete, ahead")
        ELSE Status("complete"))
  ELSE IF by_date >= g.end THEN Status("incomplete")
  ELSE IF Threw(isOnTrack(g, by_date)) THEN TypeError
  ELSE IF IsUndefined(latest(g.trajectory)) THEN TypeError
  ELSE IF isOnTrack(g, by_date).value THEN Status("on track")
  ELSE Status("behind")

-----------------------------------------------------------------------------
(* Inputs. *)

\* Dates alternately a day and an hour apart:
\* 0, DAY, DAY + HOUR, 2 * DAY + HOUR, 2 * DAY + 2 * HOUR, ...
Dates == {((k + 1) \div 2) * DAY + (k \div 2) * HOUR : k \in 0..MaxDateIdx}

Values == {Int2Num(v) : v \in 0..MaxValue}

\* The dates, and the millisecond before and after each.
QueryDates == {d + o : d \in Dates, o \in {-1, 0, 1}}

Durations == {HOUR, DAY}

\* Dates of the points of a goal's trajectory, and of its start and end.
GoalDates == 0..MaxGoalDate

\* Dates a trajectory or goal is asked about.
GoalByDates == (-1)..(MaxGoalDate + 1)

Targets == 0..(MaxValue + 1)

\* Dates of the points of a regular goal's trajectory: whole days.
RegularGoalDates == {d * DAY : d \in GoalDates}

\* Lengths of the moving window, in days.
Windows == 1..MaxWindow

\* Dates a regular goal's budget is asked about: every half day from
\* before the first point to a full window after the last.
RegularGoalByDates ==
  {d * 12 * HOUR : d \in (-1)..(2 * (MaxGoalDate + MaxWindow))}

\* Values and targets of a goal that a report is made of: multiples of 9
\* and of 3, so that velocities of 4.5 and 1.5 a day occur.
ReportValues == {Int2Num(9 * v) : v \in 0..MaxValue}

ReportTargets == {3 * t : t \in 0..(MaxValue + 1)}

\* Dates a report is asked for: whole days from two days before the first
\* point on.
ReportByDates == {d * DAY : d \in (-2)..MaxGoalDate}

\* Dates partialData is asked about: whole days up to a full window after
\* the last point, and the millisecond before each.
PartialDataByDates ==
  {d * DAY + o : d \in 0..(MaxGoalDate + MaxWindow), o \in {-1, 0}}

-----------------------------------------------------------------------------
(* Firestore documents.  `store` maps the ID of each objective document of *)
(* the one user to a record of its goal maps, goals, regular_goals and     *)
(* budget_goals; a goal map is a function from goal IDs to goal records.   *)
(* Of a goal record the model keeps the name and, for goals and regular    *)
(* goals, the trajectory: the fields that the calls modelled here read or  *)
(* write.                                                                   *)

ObjectiveIDs == {"o1", "o2"}

\* The goal IDs callers pass: "g" is a goal and "r" a regular goal of
\* objective "o1" at the start, "x" is no goal at all.
GoalIDs == {"g", "r", "x"}

\* A goal or regular goal document.
GoalDoc(name, trajectory) == [name |-> name, trajectory |-> trajectory]

\* m[k] := v on a map.
Put(m, k, v) == [j \in DOMAIN m \cup {k} |-> IF j = k THEN v ELSE m[j]]

\* delete(m, k)
Delete(m, k) == [j \in DOMAIN m \ {k} |-> m[j]]

\* No goal at all: the empty map.
NoGoals == [j \in {} |-> GoalDoc("", <<>>)]

-----------------------------------------------------------------------------
(* The Go storage layer (src/document.go, src/storage.go).  A Trajectory   *)
(* is a slice of DateValue; nil and the empty slice are both <<>>.         *)

Nil == "nil"

DateValue(date, value) == [date |-> date, value |-> value]

\* m[k] in Go: the zero value, a goal with a nil trajectory, when k is
\* missing.
Lookup(m, k) == IF k \in DOMAIN m THEN m[k] ELSE GoalDoc("", <<>>)

\* (*Trajectory).SetValue at the time `now`
TrajectorySetValue(t, now, value) == Append(t, DateValue(now, value))

\* (*Trajectory).IncrementValue at the time `now`; on an empty trajectory
\* the index len(*t)-1 is out of range and the call panics.
TrajectoryIncrementValue(t, now, delta) ==
  IF Len(t) = 0 THEN "panic"
  ELSE Append(t, DateValue(now, t[Len(t)].value + delta))

\* SetGoalValue without the test for a missing goal.
ObjectiveSetGoalValueNoCheck(o, goalID, now, value) ==
  [objective |->
     [o EXCEPT !.goals =
        Put(@, goalID,
            [Lookup(o.goals, goalID) EXCEPT
               !.trajectory = TrajectorySetValue(@, now, value)])],
   err |-> Nil]

\* (*Objective).SetGoalValue: the objective afterwards and the error.
ObjectiveSetGoalValue(o, goalID, now, value) ==
  IF goalID \notin DOMAIN o.goals
  THEN [objective |-> o, err |-> "no such goal"]
  ELSE [objective |->
          [o EXCEPT !.goals =
             Put(@, goalID,
                 [o.goals[goalID] EXCEPT
                    !.trajectory = TrajectorySetValue(@, now, value)])],
        err |-> Nil]

\* (*Objective).SetRegularGoalValue
ObjectiveSetRegularGoalValue(o, goalID, now, value) ==
  IF goalID \notin DOMAIN o.regular_goals
  THEN [objective |-> o, err |-> "no such regular goal"]
  ELSE [objective |->
          [o EXCEPT !.regular_goals =
             Put(@, goalID,
                 [o.regular_goals[goalID] EXCEPT
                    !.trajectory = TrajectorySetValue(@, now, value)])],
        err |-> Nil]

\* (*Objective).IncrementGoalValue
ObjectiveIncrementGoalValue(o, goalID, now, delta) ==
  IF goalID \notin DOMAIN o.goals
  THEN [objective |-> o, err |-> "no such goal"]
  ELSE IF Len(o.goals[goalID].trajectory) = 0
  THEN [objective |-> o, err |-> "panic"]
  ELSE [objective |->
          [o EXCEPT !.goals =
             Put(@, goalID,
                 [o.goals[goalID] EXCEPT
                    !.trajectory = TrajectoryIncrementValue(@, now, delta)])],
        err |-> Nil]

\* (*Objective).IncrementRegularGoalValue
ObjectiveIncrementRegularGoalValue(o, goalID, now, delta) ==
  IF goalID \notin DOMAIN o.regular_goals
  THEN [objective |-> o, err |-> "no such regular goal"]
  ELSE IF Len(o.regular_goals[goalID].trajectory) = 0
  THEN [objective |-> o, err |-> "panic"]
  ELSE [objective |->
          [o EXCEPT !.regular_goals =
             Put(@, goalID,
                 [o.regular_goals[goalID] EXCEPT
                    !.trajectory = TrajectoryIncrementValue(@, now, delta)])],
        err |-> Nil]

\* The map after an update of the field path <goalID>.trajectory in it:
\* the other fields of the goal stay, and a goal that is missing comes into
\* being with the trajectory as its only field.
UpdateTrajectoryPath(m, goalID, trajectory) ==
  Put(m, goalID,
      IF goalID \in DOMAIN m
      THEN [m[goalID] EXCEPT !.trajectory = trajectory]
      ELSE [trajectory |-> trajectory])

\* The document after ref.Update of the path goals.<goalID>.trajectory.
updateGoalTrajectory(doc, goalID, trajectory) ==
  [doc EXCEPT !.goals = UpdateTrajectoryPath(@, goalID, trajectory)]

\* The document after ref.Update of the path
\* regular_goals.<goalID>.trajectory.
updateRegularGoalTrajectory(doc, goalID, trajectory) ==
  [doc EXCEPT !.regular_goals = UpdateTrajectoryPath(@, goalID, trajectory)]

\* Values set, and times at which a point is appended.
GoValues == 0..MaxValue

GoNow == 1..MaxGoalDate

\* The processes that call the storage layer.
Procs == {"p1", "p2"}

\* A process that is in no call.
IdleCall ==
  [pc |-> "idle", method |-> "", objectiveID |-> "", goalID |-> "",
   value |-> 0,
   objective |-> [goals |-> NoGoals, regular_goals |-> NoGoals,
                  budget_goals |-> NoGoals],
   trajectory |-> <<>>, err |-> Nil]

\* The documents at the start: objective "o1" with the goal "g" and the
\* regular goal "r", one point each, and the budget goal "b"; and the
\* empty objective "o2".
InitStore ==
  [o \in ObjectiveIDs |->
     IF o = "o1"
     THEN [goals |-> Put(NoGoals, "g", GoalDoc("g", <<DateValue(0, 0)>>)),
           regular_goals |->
             Put(NoGoals, "r", GoalDoc("r", <<DateValue(0, 0)>>)),
           budget_goals |-> Put(NoGoals, "b", [name |-> "b"])]
     ELSE [goals |-> NoGoals, regular_goals |-> NoGoals,
           budget_goals |-> NoGoals]]

-----------------------------------------------------------------------------
(* The clipboard of the app (copy, cut, paste).  `clippedGoal` is the      *)
(* event that copy or cut stored, or Null; tx[slot] is a transaction that  *)
(* paste has started, or Null: pc is "pending" until runTransaction has    *)
(* settled, then "committed" or "failed" until the then or catch callback  *)
(* of paste has run.                                                       *)

Null == [kind |-> "null"]

GoalTypes == {"one-off", "regular", "budget"}

\* The field of the objective document that paste selects for a goal type.
Prefix(type) ==
  IF type = "one-off" THEN "goals"
  ELSE IF type = "regular" THEN "regular_goals"
  ELSE "budget_goals"

\* The event that a goal component emits for copy or cut.
ClipboardEvent(fromObjective, goalId, action, type) ==
  [fromObjective |-> [id |-> fromObjective], goal |-> [id |-> goalId],
   action |-> action, type |-> type]

\* The transactions that can be in flight at a time.
Slots == {"t1", "t2"}

\* The IDs that uuidv4() can return.
NewGoalIDs == {"c"}

\* The goal IDs in use in the documents.
UsedGoalIDs(docs) ==
  UNION {DOMAIN docs[o][Prefix(type)] : o \in DOMAIN docs, type \in GoalTypes}

\* What the transaction callback of a paste captures.
Transaction(action, prefix, goalId, from, to) ==
  [pc |-> "pending", action |-> action, prefix |-> prefix,
   goalId |-> goalId, from |-> from, to |-> to]

\* paste that starts the transaction of a CUT for any target.
pasteNoSameObjectiveTest(clip, toObjective) ==
  IF clip = Null THEN Null
  ELSE Transaction(clip.action, Prefix(clip.type), clip.goal.id,
                   clip.fromObjective.id, toObjective)

\* paste(toObjective) up to its return: the transaction it starts, or Null
\* when it returns without starting one.
paste(clip, toObjective) ==
  IF clip = Null THEN Null
  ELSE IF clip.action = "copy"
  THEN Transaction("copy", Prefix(clip.type), clip.goal.id,
                   clip.fromObjective.id, toObjective)
  ELSE IF clip.fromObjective.id = toObjective THEN Null
  ELSE Transaction("cut", Prefix(clip.type), clip.goal.id,
                   clip.fromObjective.id, toObjective)

\* The update function of the transaction t on the documents docs, with
\* newGoalId what uuidv4() returns: the documents that a commit leaves,
\* and what was thrown, "" when nothing was.  tx.update of a document
\* that does not exist fails.
RunUpdateFunction(docs, t, newGoalId) ==
  IF t.from \notin DOMAIN docs
  THEN [docs |-> docs, thrown |-> "objective does not exist"]
  ELSE IF t.goalId \notin DOMAIN docs[t.from][t.prefix]
  THEN [docs |-> docs, thrown |-> "goal does not exist"]
  ELSE IF t.to \notin DOMAIN docs
  THEN [docs |-> docs, thrown |-> "not found"]
  ELSE LET g == docs[t.from][t.prefix][t.goalId]
       IN IF t.action = "copy"
          THEN [docs |->
                  [docs EXCEPT ![t.to][t.prefix] =
                     Put(@, newGoalId, [g EXCEPT !.name = @ \o " (copy)"])],
                thrown |-> ""]
          ELSE LET added == [docs EXCEPT ![t.to][t.prefix] =
                               Put(@, t.goalId, g)]
               IN [docs |->
                     [added EXCEPT ![t.from][t.prefix] = Delete(@, t.goalId)],
                   thrown |-> ""]

-----------------------------------------------------------------------------
(* State machine: one Trajectory object and the calls made on it.  `line`  *)
(* is this._line, `op` the last call, `before` this._line when that call   *)
(* was entered and `ret` what the call returned.                           *)

Init ==
  /\ line = <<>>
  /\ before = <<>>
  /\ op = [name |-> "new"]
  /\ ret = This
  /\ store = InitStore
  /\ calls = [p \in Procs |-> IdleCall]
  /\ clippedGoal = Null
  /\ tx = [slot \in Slots |-> Null]

Insert(date, value) ==
  /\ LET r == insert(line, date, value)
     IN /\ line' = r.line
        /\ ret' = r.ret
  /\ before' = line
  /\ op' = [name |-> "insert", date |-> date, value |-> value]
  /\ UNCHANGED storeVars

Remove(date) ==
  /\ LET r == remove(line, date)
     IN /\ line' = r.line
        /\ ret' = r.ret
  /\ before' = line
  /\ op' = [name |-> "remove", date |-> date]
  /\ UNCHANGED storeVars

At(date) ==
  /\ ret' = at(line, date)
  /\ line' = line
  /\ before' = line
  /\ op' = [name |-> "at", date |-> date]
  /\ UNCHANGED storeVars

Iterate ==
  /\ ret' = iterate(line)
  /\ line' = line
  /\ before' = line
  /\ op' = [name |-> "iterate"]
  /\ UNCHANGED storeVars

\* The trajectory is written with toFirestore and read with fromFirestore.
ConvertRoundTrip ==
  /\ ret' = fromFirestoreTrajectory(toFirestoreTrajectory(line))
  /\ line' = line
  /\ before' = line
  /\ op' = [name |-> "fromFirestore"]
  /\ UNCHANGED storeVars

CompactHead(duration) ==
  /\ LET r == compactHead(line, duration)
     IN /\ line' = r.line
        /\ ret' = r.ret
  /\ before' = line
  /\ op' = [name |-> "compactHead", duration |-> duration]
  /\ UNCHANGED storeVars

\* A trajectory that is only ever inserted into, removed from and queried.
NextInsertRemove ==
  \/ \E date \in Dates, value \in Values : Insert(date, value)
  \/ \E date \in Dates : Remove(date)
  \/ \E date \in QueryDates : At(date)
  \/ Iterate
  \/ ConvertRoundTrip

SpecInsertRemove == Init /\ [][NextInsertRemove]_vars

Next ==
  \/ \E date \in Dates, value \in Values : Insert(date, value)
  \/ \E date \in Dates : Remove(date)
  \/ \E date \in QueryDates : At(date)
  \/ Iterate
  \/ ConvertRoundTrip
  \/ \E duration \in Durations : CompactHead(duration)

Spec == Init /\ [][Next]_vars

-----------------------------------------------------------------------------
(* A goal over a trajectory, as the tests set one up: the trajectory is    *)
(* built with insert and remove, a Goal is constructed over it and one of  *)
(* its methods is called.  The methods write nothing, so one call per goal *)
(* reaches every result.                                                   *)

Building == op.name \in {"new", "insert", "remove"}

Velocity(a, b) ==
  /\ Building
  /\ ret' = velocity(line, a, b)
  /\ line' = line
  /\ before' = line
  /\ op' = [name |-> "velocity", a |-> a, b |-> b]
  /\ UNCHANGED storeVars

NewGoal(start, end, target) ==
  /\ Building
  /\ ret' = This
  /\ line' = line
  /\ before' = line
  /\ op' = [name |-> "Goal", start |-> start, end |-> end,
            target |-> target]
  /\ UNCHANGED storeVars

\* The goal constructed by the last call, over the trajectory as it is now.
TheGoal == Goal(op.start, op.end, op.target, line)

Progress ==
  /\ op.name = "Goal"
  /\ ret' = progress(TheGoal)
  /\ line' = line
  /\ before' = line
  /\ op' = [name |-> "progress", start |-> op.start, end |-> op.end,
            target |-> op.target]
  /\ UNCHANGED storeVars

TimeSpent(by_date) ==
  /\ op.name = "Goal"
  /\ ret' = timeSpent(TheGoal, by_date)
  /\ line' = line
  /\ before' = line
  /\ op' = [name |-> "timeSpent", start |-> op.start, end |-> op.end,
            target |-> op.target, by_date |-> by_date]
  /\ UNCHANGED storeVars

RelativeProgress(by_date) ==
  /\ op.name = "Goal"
  /\ ret' = relativeProgress(TheGoal, by_date)
  /\ line' = line
  /\ before' = line
  /\ op' = [name |-> "relativeProgress", start |-> op.start, end |-> op.end,
            target |-> op.target, by_date |-> by_date]
  /\ UNCHANGED storeVars

IsOnTrack(by_date) ==
  /\ op.name = "Goal"
  /\ ret' = isOnTrack(TheGoal, by_date)
  /\ line' = line
  /\ before' = line
  /\ op' = [name |-> "isOnTrack", start |-> op.start, end |-> op.end,
            target |-> op.target, by_date |-> by_date]
  /\ UNCHANGED storeVars

ProgressStatus(by_date) ==
  /\ op.name = "Goal"
  /\ ret' = progressStatus(TheGoal, by_date)
  /\ line' = line
  /\ before' = line
  /\ op' = [name |-> "progressStatus", start |-> op.start, end |-> op.end,
            target |-> op.target, by_date |-> by_date]
  /\ UNCHANGED storeVars

NextGoal ==
  \/ Building /\ \E date \in GoalDates, value \in Values : Insert(date, value)
  \/ Building /\ \E date \in GoalDates : Remove(date)
  \/ \E a \in GoalByDates, b \in GoalByDates : Velocity(a, b)
  \/ \E start \in GoalDates, end \in GoalDates, target \in Targets :
       NewGoal(start, end, target)
  \/ Progress
  \/ \E by_date \in GoalByDates : TimeSpent(by_date)
  \/ \E by_date \in GoalByDates : RelativeProgress(by_date)
  \/ \E by_date \in GoalByDates : IsOnTrack(by_date)
  \/ \E by_date \in GoalByDates : ProgressStatus(by_date)

SpecGoal == Init /\ [][NextGoal]_vars

-----------------------------------------------------------------------------
(* State machine of a regular goal: a trajectory is built, a RegularGoal   *)
(* is constructed on it and one of its methods is called.  `op` holds the  *)
(* constructor's arguments from then on.                                   *)

NewRegularGoal(window, target, total) ==
  /\ Building
  /\ line' = line
  /\ before' = line
  /\ ret' = This
  /\ op' = [name |-> "RegularGoal", window |-> window, target |-> target,
            total |-> total]
  /\ UNCHANGED storeVars

TheRegularGoal == RegularGoal(op.window, op.target, op.total, line)

Value(by_date) ==
  /\ op.name = "RegularGoal"
  /\ ret' = windowValue(TheRegularGoal, by_date)
  /\ line' = line
  /\ before' = line
  /\ op' = [name |-> "value", window |-> op.window, target |-> op.target,
            total |-> op.total, by_date |-> by_date]
  /\ UNCHANGED storeVars

BudgetRemaining(by_date) ==
  /\ op.name = "RegularGoal"
  /\ ret' = budgetRemaining(TheRegularGoal, by_date)
  /\ line' = line
  /\ before' = line
  /\ op' = [name |-> "budgetRemaining", window |-> op.window,
            target |-> op.target, total |-> op.total, by_date |-> by_date]
  /\ UNCHANGED storeVars

PartialData(by_date) ==
  /\ op.name = "RegularGoal"
  /\ ret' = partialData(TheRegularGoal, by_date)
  /\ line' = line
  /\ before' = line
  /\ op' = [name |-> "partialData", window |-> op.window,
            target |-> op.target, total |-> op.total, by_date |-> by_date]
  /\ UNCHANGED storeVars

BudgetRemainingProrated(by_date) ==
  /\ op.name = "RegularGoal"
  /\ ret' = budgetRemainingProrated(TheRegularGoal, by_date)
  /\ line' = line
  /\ before' = line
  /\ op' = [name |-> "budgetRemainingProrated", window |-> op.window,
            target |-> op.target, total |-> op.total, by_date |-> by_date]
  /\ UNCHANGED storeVars

NextRegularGoal ==
  \/ Building /\ \E d \in RegularGoalDates, v \in Values : Insert(d, v)
  \/ Building /\ \E d \in RegularGoalDates : Remove(d)
  \/ \E w \in Windows, t \in Targets, u \in Targets : NewRegularGoal(w, t, u)
  \/ \E d \in RegularGoalByDates : Value(d)
  \/ \E d \in RegularGoalByDates : BudgetRemaining(d)
  \/ \E d \in PartialDataByDates : PartialData(d)
  \/ \E d \in RegularGoalByDates : BudgetRemainingProrated(d)

SpecRegularGoal == Init /\ [][NextRegularGoal]_vars

-----------------------------------------------------------------------------
(* State machine of a velocity report: a trajectory is built, a Goal is    *)
(* constructed on it and reported on.                                      *)

Report(by_date) ==
  /\ op.name = "Goal"
  /\ ret' = report(TheGoal, by_date)
  /\ line' = line
  /\ before' = line
  /\ op' = [name |-> "report", start |-> op.start, end |-> op.end,
            target |-> op.target, by_date |-> by_date]
  /\ UNCHANGED storeVars

NextReport ==
  \/ Building /\ \E d \in RegularGoalDates, v \in ReportValues : Insert(d, v)
  \/ Building /\ \E d \in RegularGoalDates : Remove(d)
  \/ \E s \in RegularGoalDates, e \in RegularGoalDates, t \in ReportTargets :
       NewGoal(s, e, t)
  \/ \E d \in ReportByDates : Report(d)

SpecReport == Init /\ [][NextReport]_vars

-----------------------------------------------------------------------------
(* State machine of the handlers that write a goal's trajectory: the       *)
(* trajectory of a goal is built and one handler is called on the goal;    *)
(* `ret` is the array it writes.                                           *)

UpdateGoalCurrent(now, current) ==
  /\ Building
  /\ ret' = updateGoalCurrent(line, now, current)
  /\ line' = line
  /\ before' = line
  /\ op' = [name |-> "updateGoalCurrent", now |-> now, current |-> current]
  /\ UNCHANGED storeVars

IncrementGoal(now) ==
  /\ Building
  /\ ret' = incrementGoal(line, now)
  /\ line' = line
  /\ before' = line
  /\ op' = [name |-> "incrementGoal", now |-> now]
  /\ UNCHANGED storeVars

NextUpdateGoal ==
  \/ Building /\ \E date \in Dates, value \in Values : Insert(date, value)
  \/ Building /\ \E date \in Dates : Remove(date)
  \/ \E now \in QueryDates, current \in Values : UpdateGoalCurrent(now, current)
  \/ \E now \in QueryDates : IncrementGoal(now)

SpecUpdateGoal == Init /\ [][NextUpdateGoal]_vars

-----------------------------------------------------------------------------
(* State machine of the Go storage layer: the processes of Procs call the  *)
(* methods of Storage on the documents of `store`.  A method reads the     *)
(* document, changes its own copy and returns, or goes on to write the     *)
(* trajectory in a second step.  Each process makes one call; calls[p]     *)
(* holds the locals of the call of p: pc is "update" between the two       *)
(* steps, "done" when the call has returned err and "panic" when it has    *)
(* panicked.                                                               *)

Call(pc, method, objectiveID, goalID, value, objective, trajectory, err) ==
  [pc |-> pc, method |-> method, objectiveID |-> objectiveID,
   goalID |-> goalID, value |-> value, objective |-> objective,
   trajectory |-> trajectory, err |-> err]

\* The call of p after readObjective (which fails when readOk is false) and
\* the method r of Objective have run: r is [objective, err], trajectory
\* the argument that the call passes on to the update.
AfterRead(method, objectiveID, goalID, value, readOk, r, trajectory) ==
  IF ~readOk
  THEN Call("done", method, objectiveID, goalID, value, IdleCall.objective,
            <<>>, "error reading objective")
  ELSE IF r.err = "panic"
  THEN Call("panic", method, objectiveID, goalID, value, r.objective, <<>>,
            Nil)
  ELSE IF r.err # Nil
  THEN Call("done", method, objectiveID, goalID, value, r.objective, <<>>,
            r.err)
  ELSE Call("update", method, objectiveID, goalID, value, r.objective,
            trajectory, Nil)

\* Storage.SetGoalValue up to its return or its call of updateGoalTrajectory
SetGoalValue(p, objectiveID, goalID, value, now, readOk) ==
  /\ calls[p].pc = "idle"
  /\ LET r == ObjectiveSetGoalValue(store[objectiveID], goalID, now, value)
     IN calls' = [calls EXCEPT ![p] =
          AfterRead("SetGoalValue", objectiveID, goalID, value,
                    readOk, r,
                    Lookup(r.objective.goals, goalID).trajectory)]
  /\ UNCHANGED <<store, clippedGoal, tx>>
  /\ UNCHANGED trajectoryVars

\* Storage.SetRegularGoalValue up to its return or its call of
\* updateRegularGoalTrajectory, to which it passes
\* objective.Goals[goalID].Trajectory.
SetRegularGoalValue(p, objectiveID, goalID, value, now, readOk) ==
  /\ calls[p].pc = "idle"
  /\ LET r == ObjectiveSetRegularGoalValue(store[objectiveID], goalID, now,
                                           value)
     IN calls' = [calls EXCEPT ![p] =
          AfterRead("SetRegularGoalValue", objectiveID, goalID, value,
                    readOk, r,
                    Lookup(r.objective.goals, goalID).trajectory)]
  /\ UNCHANGED <<store, clippedGoal, tx>>
  /\ UNCHANGED trajectoryVars

\* Storage.IncrementGoalValue up to its return or its call of
\* updateGoalTrajectory
IncrementGoalValue(p, objectiveID, goalID, delta, now, readOk) ==
  /\ calls[p].pc = "idle"
  /\ LET r == ObjectiveIncrementGoalValue(store[objectiveID], goalID, now,
                                          delta)
     IN calls' = [calls EXCEPT ![p] =
          AfterRead("IncrementGoalValue", objectiveID, goalID, delta,
                    readOk, r,
                    Lookup(r.objective.goals, goalID).trajectory)]
  /\ UNCHANGED <<store, clippedGoal, tx>>
  /\ UNCHANGED trajectoryVars

\* Storage.IncrementRegularGoalValue up to its return or its call of
\* updateRegularGoalTrajectory
IncrementRegularGoalValue(p, objectiveID, goalID, delta, now, readOk) ==
  /\ calls[p].pc = "idle"
  /\ LET r == ObjectiveIncrementRegularGoalValue(store[objectiveID], goalID,
                                                 now, delta)
     IN calls' = [calls EXCEPT ![p] =
          AfterRead("IncrementRegularGoalValue", objectiveID, goalID, delta,
                    readOk,
                    r,
                    Lookup(r.objective.regular_goals, goalID).trajectory)]
  /\ UNCHANGED <<store, clippedGoal, tx>>
  /\ UNCHANGED trajectoryVars

\* Storage.updateGoalTrajectory, and the return of its caller: the update
\* fails, and writes nothing, when updateOk is false.
UpdateGoalTrajectory(p, updateOk) ==
  /\ calls[p].pc = "update"
  /\ calls[p].method \in {"SetGoalValue", "IncrementGoalValue"}
  /\ store' =
       IF updateOk
       THEN [store EXCEPT ![calls[p].objectiveID] =
               updateGoalTrajectory(@, calls[p].goalID, calls[p].trajectory)]
       ELSE store
  /\ calls' = [calls EXCEPT ![p].pc = "done",
                            ![p].err = IF updateOk THEN Nil
                                       ELSE "update failed"]
  /\ UNCHANGED <<clippedGoal, tx>>
  /\ UNCHANGED trajectoryVars

\* Storage.updateRegularGoalTrajectory, and the return of its caller.
UpdateRegularGoalTrajectory(p, updateOk) ==
  /\ calls[p].pc = "update"
  /\ calls[p].method \in {"SetRegularGoalValue", "IncrementRegularGoalValue"}
  /\ store' =
       IF updateOk
       THEN [store EXCEPT ![calls[p].objectiveID] =
               updateRegularGoalTrajectory(@, calls[p].goalID,
                                           calls[p].trajectory)]
       ELSE store
  /\ calls' = [calls EXCEPT ![p].pc = "done",
                            ![p].err = IF updateOk THEN Nil
                                       ELSE "update failed"]
  /\ UNCHANGED <<clippedGoal, tx>>
  /\ UNCHANGED trajectoryVars

NextStorage ==
  \/ \E p \in Procs, g \in GoalIDs, v \in GoValues, t \in GoNow,
        k \in BOOLEAN : SetGoalValue(p, "o1", g, v, t, k)
  \/ \E p \in Procs, g \in GoalIDs, v \in GoValues, t \in GoNow,
        k \in BOOLEAN : SetRegularGoalValue(p, "o1", g, v, t, k)
  \/ \E p \in Procs, g \in GoalIDs, t \in GoNow, k \in BOOLEAN :
       IncrementGoalValue(p, "o1", g, 1, t, k)
  \/ \E p \in Procs, g \in GoalIDs, t \in GoNow, k \in BOOLEAN :
       IncrementRegularGoalValue(p, "o1", g, 1, t, k)
  \/ \E p \in Procs, k \in BOOLEAN : UpdateGoalTrajectory(p, k)
  \/ \E p \in Procs, k \in BOOLEAN : UpdateRegularGoalTrajectory(p, k)

SpecStorage == Init /\ [][NextStorage]_vars

-----------------------------------------------------------------------------
(* State machine of the clipboard: the user copies and cuts goals that the *)
(* app shows and pastes them into objectives; the transactions that paste  *)
(* starts run, each atomically, in any order.                              *)

\* copy(copyEvent) for a goal of the objective
Copy(fromObjective, goalId, type) ==
  /\ goalId \in DOMAIN store[fromObjective][Prefix(type)]
  /\ clippedGoal' = ClipboardEvent(fromObjective, goalId, "copy", type)
  /\ UNCHANGED <<store, calls, tx>>
  /\ UNCHANGED trajectoryVars

\* cut(cutEvent) for a goal of the objective
Cut(fromObjective, goalId, type) ==
  /\ goalId \in DOMAIN store[fromObjective][Prefix(type)]
  /\ clippedGoal' = ClipboardEvent(fromObjective, goalId, "cut", type)
  /\ UNCHANGED <<store, calls, tx>>
  /\ UNCHANGED trajectoryVars

\* paste(toObjective) up to its return; its transaction takes the first
\* free slot.
Paste(toObjective, slot) ==
  /\ tx[slot] = Null
  /\ slot = "t1" \/ tx["t1"] # Null
  /\ tx' = [tx EXCEPT ![slot] = paste(clippedGoal, toObjective)]
  /\ UNCHANGED <<store, calls, clippedGoal>>
  /\ UNCHANGED trajectoryVars

\* runTransaction: the update function runs on the documents and its
\* writes are committed, all or none; nothing is written when the function
\* throws or when the commit fails (commitOk is false).
RunTransaction(slot, newGoalId, commitOk) ==
  /\ tx[slot] # Null
  /\ tx[slot].pc = "pending"
  /\ newGoalId \notin UsedGoalIDs(store)
  /\ LET r == RunUpdateFunction(store, tx[slot], newGoalId)
     IN IF r.thrown = "" /\ commitOk
        THEN /\ store' = r.docs
             /\ tx' = [tx EXCEPT ![slot].pc = "committed"]
        ELSE /\ store' = store
             /\ tx' = [tx EXCEPT ![slot].pc = "failed"]
  /\ UNCHANGED <<calls, clippedGoal>>
  /\ UNCHANGED trajectoryVars

\* The then callback of paste.
Then(slot) ==
  /\ tx[slot] # Null
  /\ tx[slot].pc = "committed"
  /\ clippedGoal' = Null
  /\ tx' = [tx EXCEPT ![slot] = Null]
  /\ UNCHANGED <<store, calls>>
  /\ UNCHANGED trajectoryVars

\* The catch callback of paste.
Catch(slot) ==
  /\ tx[slot] # Null
  /\ tx[slot].pc = "failed"
  /\ tx' = [tx EXCEPT ![slot] = Null]
  /\ UNCHANGED <<store, calls, clippedGoal>>
  /\ UNCHANGED trajectoryVars

NextPaste ==
  \/ \E o \in ObjectiveIDs, type \in GoalTypes :
       \E g \in DOMAIN store[o][Prefix(type)] : Copy(o, g, type)
  \/ \E o \in ObjectiveIDs, type \in GoalTypes :
       \E g \in DOMAIN store[o][Prefix(type)] : Cut(o, g, type)
  \/ \E o \in ObjectiveIDs, slot \in Slots : Paste(o, slot)
  \/ \E slot \in Slots, id \in NewGoalIDs, k \in BOOLEAN :
       RunTransaction(slot, id, k)
  \/ \E slot \in Slots : Then(slot)
  \/ \E slot \in Slots : Catch(slot)

SpecPaste == Init /\ [][NextPaste]_vars

-----------------------------------------------------------------------------
(* Properties of insert and remove. *)

\* C1: after any sequence of insert and remove calls on a new Trajectory the
\* points are strictly increasing by date (so no date occurs twice), and
\* iteration yields exactly these points in that ascending order.
C1_StrictlyIncreasing ==
  /\ \A i \in 1..(Len(line) - 1) : line[i].date < line[i + 1].date
  /\ op.name = "iterate" =>
       /\ ret.kind = "array"
       /\ Len(ret.items) = Len(line)
       /\ \A i \in 1..Len(line) : ret.items[i] = line[i]
       /\ \A i \in 1..(Len(ret.items) - 1) :
            ret.items[i].date < ret.items[i + 1].date

\* An insert at a date that is already stored and is not the latest.
C1_Witness ==
  /\ op.name = "insert"
  /\ Len(before) >= 3
  /\ op.date < before[Len(before)].date
  /\ \E i \in 1..Len(before) : before[i].date = op.date

\* C2: insert(date, v2) on a trajectory holding a point at date leaves the
\* length unchanged, leaves exactly one point at date, with value v2, and
\* keeps every other point at its index with its date and value.
C2_InsertReplaces ==
  (op.name = "insert" /\ \E i \in 1..Len(before) : before[i].date = op.date)
    => /\ ret = This
       /\ Len(line) = Len(before)
       /\ Cardinality({i \in 1..Len(line) : line[i].date = op.date}) = 1
       /\ \A i \in 1..Len(before) :
            line[i] = IF before[i].date = op.date
                      THEN Point(op.date, op.value)
                      ELSE before[i]

\* An interior point of three or more was replaced by a different value.
C2_Witness ==
  /\ op.name = "insert"
  /\ Len(before) >= 3
  /\ before[2].date = op.date
  /\ before[2].value # op.value
  /\ line[2].value = op.value

\* C3: remove(date) deletes the point at date when there is one (the length
\* drops by one) and otherwise changes nothing; the remaining points keep
\* their values and order, and a second remove(date) changes nothing.
C3_Remove ==
  op.name = "remove"
    => /\ ret = This
       /\ IF \E i \in 1..Len(before) : before[i].date = op.date
          THEN \E i \in 1..Len(before) :
                 /\ before[i].date = op.date
                 /\ Len(line) = Len(before) - 1
                 /\ line = SubSeq(before, 1, i - 1)
                             \o SubSeq(before, i + 1, Len(before))
          ELSE line = before
       /\ remove(line, op.date) = [line |-> line, ret |-> This]

\* An interior point of three or more was removed.
C3_Witness ==
  /\ op.name = "remove"
  /\ Len(before) >= 3
  /\ before[2].date = op.date
  /\ Len(line) = Len(before) - 1

\* A remove of a date that is not stored but lies between stored dates.
C3_WitnessAbsent ==
  /\ op.name = "remove"
  /\ Len(before) >= 2
  /\ before[1].date < op.date
  /\ op.date < before[Len(before)].date
  /\ \A i \in 1..Len(before) : before[i].date # op.date
  /\ line = before

-----------------------------------------------------------------------------
(* Properties of at. *)

\* C4: at(date) on a trajectory without points returns undefined, for every
\* date, and does not throw.
C4_AtEmpty ==
  (op.name = "at" /\ Len(before) = 0) => ret = Undefined

\* at was called on a trajectory emptied by remove.
C4_Witness ==
  /\ op.name = "at"
  /\ line = <<>>
  /\ before = <<>>
  /\ ret = Undefined

\* C5: at(d) returns exactly v for every stored point (d, v), be it the
\* earliest, the latest or an interior point.
C5_AtStoredPoint ==
  op.name = "at"
    => \A i \in 1..Len(before) :
         before[i].date = op.date => ret = before[i].value

\* at was called at the date of an interior point whose value differs from
\* both neighbours'.
C5_Witness ==
  /\ op.name = "at"
  /\ Len(before) >= 3
  /\ before[2].date = op.date
  /\ before[2].value # before[1].value
  /\ before[2].value # before[3].value
  /\ ret = before[2].value

\* C6: on a trajectory with points, at(date) returns the earliest value for
\* every date <= earliest.date and the latest value for every
\* date >= latest.date.
C6_FlatExtrapolation ==
  (op.name = "at" /\ Len(before) >= 1)
    => /\ op.date <= before[1].date => ret = before[1].value
       /\ op.date >= before[Len(before)].date
            => ret = before[Len(before)].value

\* at was called past the latest point of a trajectory whose earliest and
\* latest values differ.
C6_Witness ==
  /\ op.name = "at"
  /\ Len(before) >= 2
  /\ op.date > before[Len(before)].date
  /\ before[1].value # before[Len(before)].value
  /\ ret = before[Len(before)].value

\* C7: for earliest.date < date < latest.date the scan of at stops inside the
\* array at the adjacent pair (t0, m0), (t2, m2) with t0 <= date < t2 and at
\* returns m0 + (date - t0) * (m2 - m0) / (t2 - t0).  (The stored values are
\* whole numbers here, so the expected value is one fraction over t2 - t0.)
C7_Interpolation ==
  (/\ op.name = "at"
   /\ Len(before) >= 1
   /\ before[1].date < op.date
   /\ op.date < before[Len(before)].date)
    => \E i \in 1..(Len(before) - 1) :
         /\ before[i].date <= op.date
         /\ op.date < before[i + 1].date
         /\ AtScan(before, op.date, 0) = i - 1
         /\ before[i].value.d = 1
         /\ before[i + 1].value.d = 1
         /\ ret = Num(before[i].value.n * (before[i + 1].date - before[i].date)
                        + (op.date - before[i].date)
                          * (before[i + 1].value.n - before[i].value.n),
                      before[i + 1].date - before[i].date)

\* at was called strictly inside the second segment of a trajectory and
\* returned a value that is not a whole number.
C7_Witness ==
  /\ op.name = "at"
  /\ Len(before) >= 3
  /\ before[2].date < op.date
  /\ op.date < before[3].date
  /\ ret.kind = "number"
  /\ ret.d > 1

-----------------------------------------------------------------------------
(* Properties of compactHead. *)

\* C8: after compactHead on a trajectory with at least 2 points the original
\* earliest point and the original latest point are both still present with
\* their date and value, also when the earliest lies inside the lookback
\* window of the latest.
C8_CompactKeepsEnds ==
  (op.name = "compactHead" /\ Len(before) >= 2)
    => /\ ret # TypeError
       /\ \E i \in 1..Len(line) : line[i] = before[1]
       /\ \E i \in 1..Len(line) : line[i] = before[Len(before)]

\* compactHead was called on a trajectory whose earliest point lies within
\* the requested duration of the latest.
C8_Witness ==
  /\ op.name = "compactHead"
  /\ Len(before) >= 2
  /\ before[Len(before)].date - before[1].date <= op.duration
  /\ line = before

\* compactHead removed an intermediate point and kept both ends.
C8_WitnessRemoved ==
  /\ op.name = "compactHead"
  /\ Len(before) >= 3
  /\ Len(line) < Len(before)
  /\ line[1] = before[1]

\* C9: compactHead on a trajectory with zero points or with one point leaves
\* the trajectory unchanged and does not throw, so that a later at() answers
\* as before the call.
C9_CompactSmallUnchanged ==
  (op.name = "compactHead" /\ Len(before) <= 1)
    => /\ ret # TypeError
       /\ line = before
       /\ \A date \in QueryDates : at(line, date) = at(before, date)

\* C10: compactHead(duration) removes only points within duration of the
\* latest point: every point p with latest.date - p.date > duration is
\* still present afterwards.
C10_CompactOnlyWithinDuration ==
  (/\ op.name = "compactHead"
   /\ \A i \in 1..Len(before) : ~IsUndefined(before[i]))
    => \A i \in 1..Len(before) :
         before[Len(before)].date - before[i].date > op.duration
           => \E j \in 1..Len(line) : line[j] = before[i]

-----------------------------------------------------------------------------
(* Properties of the conversion to and from Firestore. *)

\* C12: exporting the points of a trajectory with Array.from (toFirestore) and
\* inserting them one by one into a new Trajectory (fromFirestore) yields a
\* trajectory with the identical sequence of (date, value) points.
C12_RoundTrip ==
  op.name = "fromFirestore"
    => /\ ret.kind = "Trajectory"
       /\ Len(ret.line) = Len(line)
       /\ \A i \in 1..Len(line) :
            /\ ret.line[i].date = line[i].date
            /\ ret.line[i].value = line[i].value

\* A trajectory of three or more points with differing values was
\* converted and read back.
C12_Witness ==
  /\ op.name = "fromFirestore"
  /\ Len(line) >= 3
  /\ line[1].value # line[2].value
  /\ ret.kind = "Trajectory"
  /\ Len(ret.line) >= 3

-----------------------------------------------------------------------------
(* Properties of velocity and of Goal. *)

\* C11: for a # b, velocity(a, b) is (at(b) - at(a)) / (b - a), where at
\* interpolates and extrapolates as when asked directly (so times b - a it
\* gives back at(b) - at(a), and it is not a number on an empty
\* trajectory); it is 0 when a and b lie on the same side outside the
\* recorded range.
C11_Velocity ==
  (op.name = "velocity" /\ op.a # op.b)
    => IF Len(line) = 0 THEN ret = NaN
       ELSE /\ IsFinite(ret)
            /\ NumMul(ret, Int2Num(op.b - op.a))
                 = NumSub(at(line, op.b), at(line, op.a))
            /\ (op.a <= line[1].date /\ op.b <= line[1].date)
                 => ret = Int2Num(0)
            /\ (op.a >= line[Len(line)].date /\ op.b >= line[Len(line)].date)
                 => ret = Int2Num(0)

\* velocity was asked from inside a segment to a later point and is
\* neither zero nor a whole number.
C11_Witness ==
  /\ op.name = "velocity"
  /\ Len(line) >= 2
  /\ line[1].date < op.a
  /\ op.a < op.b
  /\ op.b <= line[Len(line)].date
  /\ IsFinite(ret)
  /\ ret.n # 0
  /\ ret.d > 1

\* velocity was asked between two different dates after the latest point.
C11_WitnessOutside ==
  /\ op.name = "velocity"
  /\ Len(line) >= 2
  /\ line[1].value # line[Len(line)].value
  /\ op.a > line[Len(line)].date
  /\ op.b > op.a
  /\ ret = Int2Num(0)

\* C13: progress is (latest.value - baseline) / (target - baseline) with
\* baseline = at(start) on the trajectory as it is; it is NaN on a
\* trajectory without points and exactly 1 when the latest value equals
\* target and target differs from baseline.
C13_Progress ==
  op.name = "progress"
    => IF Len(line) = 0 THEN ret = NaN
       ELSE LET base == at(line, op.start)
                last == line[Len(line)].value
                target == Int2Num(op.target)
            IN IF target # base
               THEN /\ IsFinite(ret)
                    /\ NumMul(ret, NumSub(target, base)) = NumSub(last, base)
                    /\ last = target => ret = Int2Num(1)
               ELSE ret = IF last = base THEN NaN
                          ELSE Infinity(Sign(NumSub(last, base)))

\* progress of a goal whose baseline is interpolated between two points
\* and whose latest value reaches the target.
C13_Witness ==
  /\ op.name = "progress"
  /\ Len(line) >= 2
  /\ line[1].date < op.start
  /\ op.start < line[2].date
  /\ at(line, op.start).d > 1
  /\ line[Len(line)].value = Int2Num(op.target)
  /\ ret = Int2Num(1)

\* C14: timeSpent(byDate) is (byDate - start) / (end - start) when
\* end # start, which is 0 at start and 1 at end, and is 1 for every byDate
\* when end = start.
C14_TimeSpent ==
  op.name = "timeSpent"
    => IF op.end = op.start THEN ret = Int2Num(1)
       ELSE /\ IsFinite(ret)
            /\ ret.n * (op.end - op.start) = ret.d * (op.by_date - op.start)
            /\ op.by_date = op.start => ret = Int2Num(0)
            /\ op.by_date = op.end => ret = Int2Num(1)

\* timeSpent of a goal that starts and ends on the same date, asked at
\* another date.
C14_Witness ==
  /\ op.name = "timeSpent"
  /\ op.end = op.start
  /\ op.by_date # op.start
  /\ ret = Int2Num(1)

\* timeSpent strictly inside a window of more than one date.
C14_WitnessInside ==
  /\ op.name = "timeSpent"
  /\ op.start < op.by_date
  /\ op.by_date < op.end
  /\ IsFinite(ret)
  /\ ret.d > 1

\* C15: relativeProgress(byDate) is exactly 1 for byDate <= start; for
\* byDate > start it is p / t with
\* p = (at(byDate) - baseline) / (target - baseline) and
\* t = timeSpent(min(end, byDate)), so that for byDate >= end > start, where
\* t is 1, it is p.
C15_RelativeProgress ==
  op.name = "relativeProgress"
    => IF op.by_date <= op.start THEN ret = Int2Num(1)
       ELSE LET base == at(line, op.start)
                p == JsDiv(JsSub(at(line, op.by_date), base),
                           JsSub(Int2Num(op.target), base))
                t == IF op.end = op.start THEN Int2Num(1)
                     ELSE Num(MinDate(op.end, op.by_date) - op.start,
                              op.end - op.start)
            IN /\ ret = JsDiv(p, t)
               /\ (op.by_date >= op.end /\ op.end > op.start) => ret = p

\* relativeProgress asked after the end of a goal: the time spent at the
\* date asked is more than 1, and the result is the progress made, which
\* is neither 0 nor 1.
C15_Witness ==
  /\ op.name = "relativeProgress"
  /\ op.start < op.end
  /\ op.end < op.by_date
  /\ IsFinite(ret)
  /\ ret.n # 0
  /\ ret # Int2Num(1)

\* relativeProgress asked before the start of a goal with points.
C15_WitnessBeforeStart ==
  /\ op.name = "relativeProgress"
  /\ op.by_date < op.start
  /\ Len(line) >= 2
  /\ ret = Int2Num(1)

\* C16: isOnTrack(byDate) is true exactly when
\* progress >= timeSpent(min(end, byDate)), progress being computed from
\* the latest value and not from at(byDate); hence
\* isOnTrack(byDate) = isOnTrack(end) for byDate >= end.
C16_IsOnTrack ==
  op.name = "isOnTrack"
    => LET base == at(line, op.start)
           prog == IF Len(line) = 0 THEN NaN
                   ELSE JsDiv(JsSub(line[Len(line)].value, base),
                              JsSub(Int2Num(op.target), base))
           t == IF op.end = op.start THEN Int2Num(1)
                ELSE Num(MinDate(op.end, op.by_date) - op.start,
                         op.end - op.start)
       IN /\ ret = Boolean(prog # NaN /\ ~Less(prog, t))
          /\ op.by_date >= op.end
               => ret = isOnTrack(Goal(op.start, op.end, op.target, line),
                                  op.end)

\* isOnTrack is true at a date by which the trajectory had not made the
\* progress that the time spent asks for.
C16_Witness ==
  /\ op.name = "isOnTrack"
  /\ op.start < op.by_date
  /\ op.by_date < op.end
  /\ Len(line) >= 2
  /\ ret = Boolean(TRUE)
  /\ ~JsGe(JsDiv(JsSub(at(line, op.by_date), at(line, op.start)),
                  JsSub(Int2Num(op.target), at(line, op.start))),
            Num(op.by_date - op.start, op.end - op.start))

\* isOnTrack asked after the end of a goal that has not reached its target.
C16_WitnessAfterEnd ==
  /\ op.name = "isOnTrack"
  /\ op.start < op.end
  /\ op.end < op.by_date
  /\ Len(line) >= 1
  /\ ret = Boolean(FALSE)

\* C20: progressStatus(goal, byDate) returns one status for every input:
\* 'days until start' when byDate < start; otherwise 'complete, ahead' when
\* progress >= 1 and byDate < end, 'complete' when progress >= 1 and
\* byDate >= end; otherwise 'incomplete' when byDate >= end; otherwise
\* 'on track' when isOnTrack(byDate) and 'behind' when not.
C20_ProgressStatus ==
  op.name = "progressStatus"
    => LET g == Goal(op.start, op.end, op.target, line)
           complete == JsGe(progress(g), Int2Num(1))
       IN ret = IF op.by_date < op.start THEN Status("days until start")
                ELSE IF complete /\ op.by_date < op.end
                THEN Status("complete, ahead")
                ELSE IF complete THEN Status("complete")
                ELSE IF op.by_date >= op.end THEN Status("incomplete")
                ELSE IF isOnTrack(g, op.by_date) = Boolean(TRUE)
                THEN Status("on track")
                ELSE Status("behind")

\* The statement of C20 for goals whose trajectory has a point.
C20_ProgressStatusWithPoints ==
  Len(line) >= 1 => C20_ProgressStatus

-----------------------------------------------------------------------------
C17_WitnessBelowTarget ==
  /\ op.name = "budgetRemaining"
  /\ op.total > op.target
  /\ Len(line) >= 2
  /\ IsFinite(ret)
  /\ Less(ret, Int2Num(0))
  /\ ret.d # 1

\* The trajectory is empty.
C17_WitnessEmpty ==
  /\ op.name = "budgetRemaining"
  /\ Len(line) = 0
  /\ ret = NaN

-----------------------------------------------------------------------------
C18_WitnessFullWindow ==
  /\ op.name = "partialData"
  /\ Len(line) >= 1
  /\ op.by_date = line[1].date + op.window * DAY
  /\ ret = Boolean(FALSE)

-----------------------------------------------------------------------------
\* C19: budgetRemainingProrated(byDate) is NaN on an empty trajectory; it
\* is budgetRemaining(byDate) when partialData(byDate) is false; and when
\* partialData(byDate) is true it is
\* min(1, (value(byDate) - r * target) / (r * total - r * target)) with
\* r = (byDate - earliest.date) / (window * DAY).
C19_BudgetRemainingProrated ==
  op.name = "budgetRemainingProrated" =>
    IF Len(line) = 0 THEN ret = NaN
    ELSE LET g == RegularGoal(op.window, op.target, op.total, line)
             partial == line[1].date > op.by_date - op.window * DAY
             r == JsDiv(Int2Num(op.by_date - line[1].date),
                        Int2Num(op.window * DAY))
             delta == JsSub(at(line, op.by_date),
                            at(line, op.by_date - op.window * DAY))
             b == JsDiv(JsSub(delta, JsMul(r, g.target)),
                        JsSub(JsMul(r, g.total), JsMul(r, g.target)))
         IN /\ partialData(g, op.by_date) = Boolean(partial)
            /\ ~partial => ret = budgetRemaining(g, op.by_date)
            /\ partial => ret = MathMin(Int2Num(1), b)
            /\ (partial /\ IsFinite(b) /\ Less(Int2Num(1), b)) =>
                 ret = Int2Num(1)

\* With partial data the prorated budget is a number that differs from the
\* budget that is not prorated.
C19_Witness ==
  /\ op.name = "budgetRemainingProrated"
  /\ Len(line) >= 2
  /\ line[1].date > op.by_date - op.window * DAY
  /\ IsFinite(ret)
  /\ IsFinite(budgetRemaining(TheRegularGoal, op.by_date))
  /\ ret # budgetRemaining(TheRegularGoal, op.by_date)

\* With partial data the prorated budget is capped at 1.
C19_WitnessCapped ==
  /\ op.name = "budgetRemainingProrated"
  /\ Len(line) >= 2
  /\ line[1].date > op.by_date - op.window * DAY
  /\ ret = Int2Num(1)
  /\ budgetRemainingProratedNoMin(TheRegularGoal, op.by_date) # ret

\* A full window of history exists: both budgets are the same number.
C19_WitnessFullWindow ==
  /\ op.name = "budgetRemainingProrated"
  /\ Len(line) >= 2
  /\ line[1].date <= op.by_date - op.window * DAY
  /\ IsFinite(ret)
  /\ ~IsZero(ret)
  /\ ret = budgetRemaining(TheRegularGoal, op.by_date)

\* The trajectory is empty.
C19_WitnessEmpty ==
  /\ op.name = "budgetRemainingProrated"
  /\ Len(line) = 0
  /\ ret = NaN

-----------------------------------------------------------------------------
\* C21: for a goal whose trajectory is empty, progressStatus(goal, byDate)
\* returns a status string for every byDate and never throws.
C21_ProgressStatusEmptyNeverThrows ==
  (op.name = "progressStatus" /\ Len(line) = 0) =>
    (~Threw(ret) /\ ret.kind = "string")

-----------------------------------------------------------------------------
\* C22: VelocityReport.report names its unit by magnitude: 'per day' when
\* the absolute value of the 30-day velocity or of the required velocity,
\* in units a day, is at least 1; else 'per week' when either absolute
\* value times 7 is at least 1; else 'per month'.
C22_ReportUnitByMagnitude ==
  op.name = "report" =>
    LET g == Goal(op.start, op.end, op.target, line)
        v == JsMul(velocity30d(g, op.by_date), Int2Num(DAY))
        rv == JsMul(velocityRequired(g, op.by_date), Int2Num(DAY))
        AtLeast(x, k) == JsGe(x, Int2Num(k)) \/ JsGe(JsNeg(x), Int2Num(k))
    IN ret = IF AtLeast(v, 1) \/ AtLeast(rv, 1) THEN ReportUnit("per day")
             ELSE IF AtLeast(JsMul(v, Int2Num(7)), 1)
                     \/ AtLeast(JsMul(rv, Int2Num(7)), 1)
             THEN ReportUnit("per week")
             ELSE ReportUnit("per month")

\* The statement of C22 for velocities that are not negative.
C22_ReportUnitAscending ==
  (/\ op.name = "report"
   /\ ~JsGe(Int2Num(-1),
            JsMul(JsMul(velocity30d(TheGoal, op.by_date), Int2Num(DAY)),
                  Int2Num(7)))
   /\ ~JsGe(Int2Num(-1),
            JsMul(JsMul(velocityRequired(TheGoal, op.by_date), Int2Num(DAY)),
                  Int2Num(7))))
    => C22_ReportUnitByMagnitude

\* The descending goal of the claim: velocities of -4.5 and -1.5 a day.
C22_DescendingPerDay ==
  (/\ op.name = "report"
   /\ JsMul(velocity30d(TheGoal, op.by_date), Int2Num(DAY)) = Num(-9, 2)
   /\ JsMul(velocityRequired(TheGoal, op.by_date), Int2Num(DAY)) = Num(-3, 2))
    => ret = ReportUnit("per day")

\* The report on the descending goal of the claim names the month: the
\* trajectory falls from 9 to 0 within two days towards a target of 3.
C22_DescendingPerMonth ==
  /\ op = [name |-> "report", start |-> 0, end |-> 2 * DAY, target |-> 3,
           by_date |-> DAY]
  /\ line = <<Point(0, Int2Num(9)), Point(2 * DAY, Int2Num(0))>>
  /\ JsMul(velocity30d(TheGoal, DAY), Int2Num(DAY)) = Num(-9, 2)
  /\ JsMul(velocityRequired(TheGoal, DAY), Int2Num(DAY)) = Num(-3, 2)
  /\ ret = ReportUnit("per month")

-----------------------------------------------------------------------------
\* C23: SetGoalValue, SetRegularGoalValue, IncrementGoalValue and
\* IncrementRegularGoalValue of Objective, called with a goal ID that is
\* not in the objective's map, return a 'no such goal' error and leave the
\* goal maps and trajectories of the objective as they were read; the
\* method of Storage then returns that error and writes nothing.
C23_NoSuchGoal ==
  [][\A p \in Procs :
       LET c == calls'[p]
           doc == store[c.objectiveID]
           map == IF c.method \in {"SetGoalValue", "IncrementGoalValue"}
                  THEN doc.goals ELSE doc.regular_goals
       IN (/\ calls[p].pc = "idle"
           /\ c.pc # "idle"
           /\ c.err # "error reading objective"
           /\ c.goalID \notin DOMAIN map)
          => /\ c.pc = "done"
             /\ c.err = IF c.method \in {"SetGoalValue", "IncrementGoalValue"}
                        THEN "no such goal" ELSE "no such regular goal"
             /\ c.err # Nil
             /\ c.objective = doc
             /\ store' = store]_vars

\* Storage.SetGoalValue has returned the error for the goal ID "x".
C23_Witness ==
  \E p \in Procs :
    /\ calls[p].pc = "done"
    /\ calls[p].method = "SetGoalValue"
    /\ calls[p].goalID = "x"
    /\ calls[p].err = "no such goal"
    /\ store = InitStore

\* IncrementRegularGoalValue has returned the error for the ID of a goal
\* that is not a regular goal.
C23_WitnessRegular ==
  \E p \in Procs :
    /\ calls[p].pc = "done"
    /\ calls[p].method = "IncrementRegularGoalValue"
    /\ calls[p].goalID = "g"
    /\ calls[p].err = "no such regular goal"

-----------------------------------------------------------------------------
\* C26: Storage.SetRegularGoalValue on an existing regular goal passes on,
\* and writes to regular_goals.<goalID>.trajectory, the trajectory that it
\* read for the regular goal followed by one new point that carries value.
C26_SetRegularGoalValueAppends ==
  [][\A p \in Procs :
       /\ (/\ calls[p].pc = "idle"
           /\ calls'[p].pc = "update"
           /\ calls'[p].method = "SetRegularGoalValue")
          => LET c == calls'[p]
                 previous ==
                   store[c.objectiveID].regular_goals[c.goalID].trajectory
                 t == c.trajectory
             IN /\ Len(t) = Len(previous) + 1
                /\ SubSeq(t, 1, Len(previous)) = previous
                /\ t[Len(t)].value = c.value
       /\ (/\ calls[p].pc = "update"
           /\ calls[p].method = "SetRegularGoalValue"
           /\ calls'[p].err = Nil)
          => store'[calls[p].objectiveID].regular_goals[calls[p].goalID]
                 .trajectory
               = calls[p].objective.regular_goals[calls[p].goalID]
                   .trajectory]_vars

\* SetRegularGoalValue has returned nil and the regular goal "r", which had
\* a point, has none any more.
C26_PointsLost ==
  \E p \in Procs :
    /\ calls[p].pc = "done"
    /\ calls[p].method = "SetRegularGoalValue"
    /\ calls[p].goalID = "r"
    /\ calls[p].err = Nil
    /\ calls[p].objective.regular_goals["r"].trajectory
         = Append(InitStore["o1"].regular_goals["r"].trajectory,
                  DateValue(1, calls[p].value))
    /\ store["o1"].regular_goals["r"].trajectory = <<>>

-----------------------------------------------------------------------------
\* C30: when the calls of both processes, each IncrementGoalValue or
\* SetGoalValue for the goal "g", have returned nil, the stored trajectory
\* of "g" holds the points of both: it is two points longer than at the
\* start.
C30_NoLostUpdate ==
  (\A p \in Procs :
     /\ calls[p].pc = "done"
     /\ calls[p].method \in {"SetGoalValue", "IncrementGoalValue"}
     /\ calls[p].goalID = "g"
     /\ calls[p].err = Nil)
  => Len(store["o1"].goals["g"].trajectory)
       = Len(InitStore["o1"].goals["g"].trajectory) + 2

\* Each write of a goal's trajectory that succeeds makes the stored
\* trajectory one point longer.
C30_EveryWriteAppends ==
  [][\A p \in Procs :
       (/\ calls[p].pc = "update"
        /\ calls[p].method \in {"SetGoalValue", "IncrementGoalValue"}
        /\ calls'[p].pc = "done"
        /\ calls'[p].err = Nil)
       => Len(store'[calls[p].objectiveID].goals[calls[p].goalID].trajectory)
            = Len(store[calls[p].objectiveID].goals[calls[p].goalID]
                    .trajectory) + 1]_vars

\* Both calls have returned nil and the stored trajectory is one point
\* longer than at the start.
C30_LostUpdate ==
  /\ \A p \in Procs :
       /\ calls[p].pc = "done"
       /\ calls[p].method = "IncrementGoalValue"
       /\ calls[p].goalID = "g"
       /\ calls[p].err = Nil
  /\ Len(store["o1"].goals["g"].trajectory)
       = Len(InitStore["o1"].goals["g"].trajectory) + 1

-----------------------------------------------------------------------------
-----------------------------------------------------------------------------
\* C25: in relativeProgress the divisor t = timeSpent(min(end, byDate)) is
\* not zero for any byDate > start, whatever start and end are (end equal
\* to start and end before start included); t is zero only for
\* byDate <= start, where 1.0 is returned before the division.
C25_DivisorNonZero ==
  op.name = "relativeProgress" =>
    LET g == Goal(op.start, op.end, op.target, line)
        t == timeSpent(g, MinDate(op.end, op.by_date))
    IN /\ op.by_date > op.start => (IsFinite(t) /\ ~IsZero(t))
       /\ IsZero(t) => (op.by_date <= op.start /\ ret = Int2Num(1))

\* relativeProgress is asked after the start of a goal that ends before it
\* starts.
C25_Witness ==
  /\ op.name = "relativeProgress"
  /\ op.end < op.start
  /\ op.by_date > op.start
  /\ Len(line) >= 1

\* relativeProgress is asked after the start of a goal that ends when it
\* starts.
C25_WitnessEmptyWindow ==
  /\ op.name = "relativeProgress"
  /\ op.end = op.start
  /\ op.by_date > op.start
  /\ Len(line) >= 1

\* The divisor is zero: relativeProgress is asked at the start.
C25_WitnessZero ==
  /\ op.name = "relativeProgress"
  /\ op.end > op.start
  /\ op.by_date = op.start
  /\ IsZero(timeSpent(TheGoal, MinDate(op.end, op.by_date)))
  /\ ret = Int2Num(1)

-----------------------------------------------------------------------------
\* C27: for a goal whose trajectory has a point, and any time now, the
\* trajectory that updateGoalCurrent(goal, current) writes has current as
\* the value of its latest point, and the one that incrementGoal(goal)
\* writes has the goal's latest value plus 1; the goal's own trajectory is
\* not changed.
C27_WritesLatestValue ==
  (op.name \in {"updateGoalCurrent", "incrementGoal"} /\ Len(before) >= 1) =>
    /\ ret # TypeError
    /\ Len(ret.items) >= 1
    /\ ret.items[Len(ret.items)].value =
         IF op.name = "updateGoalCurrent" THEN op.current
         ELSE JsAdd(before[Len(before)].value, Int2Num(1))
    /\ line = before

\* The statement of C27 for a time now that is not earlier than the latest
\* point of the goal.
C27_WritesLatestValueNowLatest ==
  (/\ op.name \in {"updateGoalCurrent", "incrementGoal"}
   /\ Len(before) >= 1
   /\ op.now >= before[Len(before)].date)
    => C27_WritesLatestValue

\* updateGoalCurrent at a time before the goal's latest point wrote the
\* trajectory as it was: the new value is in none of its points.
C27_UpdateLost ==
  /\ op.name = "updateGoalCurrent"
  /\ Len(before) >= 2
  /\ op.now < before[Len(before)].date
  /\ op.current # before[Len(before)].value
  /\ \A i \in 1..Len(before) : before[i].date # op.now
  /\ ret = iterate(before)

-----------------------------------------------------------------------------
\* The orders in which the points of l can be inserted.
Orders(l) ==
  {[i \in 1..Len(l) |-> l[f[i]]] : f \in Permutations(1..Len(l))}

\* C29: the points of a trajectory have pairwise distinct dates, and
\* inserting the points that it holds after an insert into an empty
\* trajectory in any order, later dates before earlier ones included, gives
\* the same sequence of points, as long as the number of distinct dates.
C29_InsertionOrder ==
  /\ Cardinality({line[i].date : i \in 1..Len(line)}) = Len(line)
  /\ op.name = "insert" =>
       \A points \in Orders(line) :
         LET inserted == InsertAll(points)
         IN /\ inserted = line
            /\ Len(inserted) =
                 Cardinality({points[i].date : i \in 1..Len(points)})

\* Three points, the last one inserted with a date earlier than both others.
C29_Witness ==
  /\ op.name = "insert"
  /\ Len(before) = 2
  /\ Len(line) = 3
  /\ op.date < before[1].date
  /\ line[1] = Point(op.date, op.value)
  /\ InsertAll(<<line[3], line[1], line[2]>>) = line

\* Three points, the last one inserted between the two others.
C29_WitnessMiddle ==
  /\ op.name = "insert"
  /\ Len(before) = 2
  /\ Len(line) = 3
  /\ line[2] = Point(op.date, op.value)

-----------------------------------------------------------------------------
\* The objectives that hold the goal id in the map of the type.
Holders(docs, type, id) ==
  {o \in DOMAIN docs : id \in DOMAIN docs[o][Prefix(type)]}

\* Each goal of the start is in exactly one objective, with its record, and
\* no transaction of a CUT has its source as its target.
C28_ExactlyOne ==
  /\ \A type \in GoalTypes :
       \A id \in DOMAIN InitStore["o1"][Prefix(type)] :
         /\ Cardinality(Holders(store, type, id)) = 1
         /\ \A o \in Holders(store, type, id) :
              store[o][Prefix(type)][id] = InitStore["o1"][Prefix(type)][id]
  /\ \A slot \in Slots :
       (tx[slot] # Null /\ tx[slot].action = "cut")
         => tx[slot].from # tx[slot].to

\* The transaction of a CUT that settles has either committed, and then
\* the goal record is in the target and no longer in the source, which
\* differ, and nothing else has changed; or it has failed, and then every
\* document is as it was.
C28_Settles ==
  \A slot \in Slots :
    (/\ tx[slot] # Null
     /\ tx[slot].pc = "pending"
     /\ tx[slot].action = "cut"
     /\ tx'[slot] # tx[slot])
    => LET t == tx[slot]
       IN IF tx'[slot].pc = "committed"
          THEN /\ t.from # t.to
               /\ t.goalId \in DOMAIN store[t.from][t.prefix]
               /\ t.goalId \notin DOMAIN store'[t.from][t.prefix]
               /\ t.goalId \in DOMAIN store'[t.to][t.prefix]
               /\ store'[t.to][t.prefix][t.goalId]
                    = store[t.from][t.prefix][t.goalId]
               /\ \A o \in ObjectiveIDs, type \in GoalTypes :
                    \A id \in (DOMAIN store[o][Prefix(type)]
                               \cup DOMAIN store'[o][Prefix(type)]) :
                      (id # t.goalId \/ Prefix(type) # t.prefix)
                        => /\ id \in DOMAIN store[o][Prefix(type)]
                           /\ id \in DOMAIN store'[o][Prefix(type)]
                           /\ store'[o][Prefix(type)][id]
                                = store[o][Prefix(type)][id]
          ELSE /\ tx'[slot].pc = "failed"
               /\ store' = store

\* The clipboard is emptied only by the then callback of a transaction
\* that has committed.
C28_ClearedAfterCommit ==
  (clippedGoal # Null /\ clippedGoal' = Null)
    => \E slot \in Slots :
         /\ tx[slot] # Null
         /\ tx[slot].pc = "committed"
         /\ tx'[slot] = Null

\* C28: pasting a CUT goal never loses or duplicates it: once the paste has
\* finished the goal record is in exactly one objective, in the target
\* only when the transaction committed and the target is not the source,
\* in the source otherwise, with both objectives unchanged; and the
\* clipboard is cleared only after a commit.
C28_PasteCut ==
  /\ []C28_ExactlyOne
  /\ [][C28_Settles]_vars
  /\ [][C28_ClearedAfterCommit]_vars

\* The transaction of a CUT of the goal "g" has committed and its then
\* callback has not run: "g" is in "o2" and the clipboard still holds it.
C28_Witness ==
  \E slot \in Slots :
    /\ tx[slot] # Null
    /\ tx[slot].pc = "committed"
    /\ tx[slot].action = "cut"
    /\ tx[slot].goalId = "g"
    /\ Holders(store, "one-off", "g") = {"o2"}
    /\ clippedGoal # Null

\* The transaction of a CUT has failed and every document is as at the
\* start.
C28_WitnessFailed ==
  \E slot \in Slots :
    /\ tx[slot] # Null
    /\ tx[slot].pc = "failed"
    /\ tx[slot].action = "cut"
    /\ store = InitStore
    /\ clippedGoal # Null

\* Of two transactions of the same CUT one has committed and the other
\* has failed.
C28_WitnessTwice ==
  /\ \A slot \in Slots : tx[slot] # Null /\ tx[slot].action = "cut"
  /\ tx["t1"].goalId = tx["t2"].goalId
  /\ tx["t1"].from = tx["t2"].from
  /\ {tx["t1"].pc, tx["t2"].pc} = {"committed", "failed"}

====
